---- MODULE Spec2Model ----
(***************************************************************************)
(* Model of the lead-generation pipeline: run.py (interactive pipeline),   *)
(* main_backend.pipeline, cli --mode enrich_only, and the utils they call  *)
(* (search_leads, enrich_leads, generate_outreach, refine_outreach_message,*)
(* save_stage, finalize).                                                  *)
(*                                                                         *)
(* A Python str is a sequence of tokens (a word, a fixed phrase, or one    *)
(* character); "" is <<>>, concatenation is \o and len() is the sum of the *)
(* token lengths.  A lead is a function from column names to strings; only *)
(* the columns the pipeline's decisions read or write are kept.            *)
(***************************************************************************)
EXTENDS Integers, Sequences, FiniteSets, TLC

\* ------------------------------------------------------------------ bounds
\* most results the external search (gallery page, SerpAPI) hands back
MaxResults == 2
\* program invocations in one behaviour of SpecRuns
MaxRuns == 2
\* longest list handed to enrich_leads in SpecEnrich
MaxItems == 3
\* largest max_events handed to discover_events, and most organic results
\* the event search hands back
MaxEvents == 2
MaxEventResults == 3

\* ------------------------------------------------------------------ text
Empty == <<>>
None == <<"<None>">>
NaN == <<"<NaN>">>
SEP == "###RATIONALE###"
RAISE == <<"<raise>">>
LongText == "It was great to see your presence at ISA Sign Expo 2025. Would you be open to a brief introductory call next week?"
ShortText == "Happy to connect soon."
DefaultDescription == "No detailed description available."
NoKeyDescription == "SerpAPI key not configured or client not installed."
DefaultRationale == "Rationale not extracted by LLM."
DefaultEvent == "ISA Sign Expo 2025"

TokLen(tok) ==
  CASE tok = SEP -> 15
    [] tok = LongText -> 114
    [] tok = ShortText -> 22
    [] tok = DefaultDescription -> 34
    [] tok = NoKeyDescription -> 51
    [] tok = DefaultRationale -> 31
    [] tok = DefaultEvent -> 18
    [] tok = "It was a pleasure to learn about " -> 33
    [] tok = " during " -> 8
    [] tok = ". We were impressed by " -> 23
    [] tok = " and see potential for collaboration. Would you be open to a brief discussion?" -> 78
    [] tok = "Following " -> 10
    [] tok = ", I wanted to reach out regarding " -> 34
    [] tok = "your work and presence" -> 22
    [] tok = "your company's work" -> 19
    [] tok = "..." -> 3
    [] tok = "Best regards," -> 13
    [] tok = "Refined Email Body:" -> 19
    [] tok = "Your Name" -> 9
    [] tok = "Your Company" -> 12
    [] tok = "Acme" -> 4
    [] tok = "leads.pdf" -> 9
    [] tok = "leads" -> 5
    [] tok = "Bolt" -> 4
    [] tok = "SerpAPI search failed" -> 21
    [] tok = "Ann" -> 3
    [] tok = "Org" -> 3
    [] tok = "isa2025" -> 7
    [] tok = "ISA2025" -> 7
    [] tok = "signage" -> 7
    [] tok = "SIGNAGE" -> 7
    [] tok = "Large" -> 5
    [] tok = "format" -> 6
    [] tok = "printing" -> 8
    [] tok = "services" -> 8
    [] tok = "for" -> 3
    [] tok = "trade" -> 5
    [] tok = "show" -> 4
    [] tok = "events" -> 6
    [] OTHER -> 1

RECURSIVE StrLen(_)
StrLen(s) == IF s = <<>> THEN 0 ELSE TokLen(Head(s)) + StrLen(Tail(s))

Whitespace == {" ", "\n"}

RECURSIVE LStrip(_)
LStrip(s) == IF s # <<>> /\ Head(s) \in Whitespace THEN LStrip(Tail(s)) ELSE s

RECURSIVE RStrip(_)
RStrip(s) ==
  IF s # <<>> /\ s[Len(s)] \in Whitespace THEN RStrip(SubSeq(s, 1, Len(s) - 1)) ELSE s

Strip(s) == RStrip(LStrip(s))

LowerTok(tok) ==
  CASE tok = "Y" -> "y"
    [] tok = "N" -> "n"
    [] tok = "ISA2025" -> "isa2025"
    [] tok = "SIGNAGE" -> "signage"
    [] OTHER -> tok

UpperTok(tok) ==
  CASE tok = "isa2025" -> "ISA2025"
    [] tok = "signage" -> "SIGNAGE"
    [] OTHER -> tok

Lower(s) == [i \in 1..Len(s) |-> LowerTok(s[i])]
Upper(s) == [i \in 1..Len(s) |-> UpperTok(s[i])]

\* Python's `pat in s`
Contains(s, pat) ==
  \E i \in 1..(Len(s) - Len(pat) + 1) : SubSeq(s, i, i + Len(pat) - 1) = pat

\* Python truthiness of a str-or-None argument
Falsy(s) == s \in {Empty, None}

\* s[:n], cut at a token boundary
RECURSIVE Truncate(_, _)
Truncate(s, n) ==
  IF s = <<>> \/ TokLen(Head(s)) > n THEN <<>>
  ELSE <<Head(s)>> \o Truncate(Tail(s), n - TokLen(Head(s)))

\* s.rstrip('.')
RECURSIVE RStripDot(_)
RStripDot(s) ==
  IF s # <<>> /\ s[Len(s)] = "." THEN RStripDot(SubSeq(s, 1, Len(s) - 1)) ELSE s

RECURSIVE RemoveTok(_, _)
RemoveTok(s, tok) ==
  IF s = <<>> THEN <<>>
  ELSE IF Head(s) = tok THEN RemoveTok(Tail(s), tok)
  ELSE <<Head(s)>> \o RemoveTok(Tail(s), tok)

\* dict.get(key, default) and dict.update({key: value})
Get(row, key, default) == IF key \in DOMAIN row THEN row[key] ELSE default
Put(row, key, value) ==
  [k \in DOMAIN row \cup {key} |-> IF k = key THEN value ELSE row[k]]

\* ------------------------------------------------------------------ run.py: the number-of-leads prompt
PromptDefault == 10
FallbackNumLeads == 5

Digits == {"0", "1", "2", "3", "4", "5", "6", "7", "8", "9"}
DigitVal(tok) ==
  CASE tok = "0" -> 0 [] tok = "1" -> 1 [] tok = "2" -> 2 [] tok = "3" -> 3
    [] tok = "4" -> 4 [] tok = "5" -> 5 [] tok = "6" -> 6 [] tok = "7" -> 7
    [] tok = "8" -> 8 [] tok = "9" -> 9 [] OTHER -> 0

\* int(s) succeeds: an optional sign followed by at least one digit
IsIntLiteral(s) ==
  LET d == IF s # <<>> /\ Head(s) \in {"-", "+"} THEN Tail(s) ELSE s
  IN  d # <<>> /\ \A i \in 1..Len(d) : d[i] \in Digits

RECURSIVE DigitsVal(_, _)
DigitsVal(d, acc) ==
  IF d = <<>> THEN acc ELSE DigitsVal(Tail(d), 10 * acc + DigitVal(Head(d)))

IntOf(s) ==
  IF Head(s) = "-" THEN 0 - DigitsVal(Tail(s), 0)
  ELSE IF Head(s) = "+" THEN DigitsVal(Tail(s), 0)
  ELSE DigitsVal(s, 0)

\* run.py 29-37: the value of num_leads after the prompt
read_num_leads(num_leads_str) ==
  IF IsIntLiteral(num_leads_str)
  THEN IF IntOf(num_leads_str) <= 0 THEN FallbackNumLeads ELSE IntOf(num_leads_str)
  ELSE FallbackNumLeads

\* run.py 43-50
signature_name(user_name_input) ==
  IF user_name_input # Empty THEN user_name_input ELSE <<"Your Name">>
signature_company(user_company_input) ==
  IF user_company_input # Empty THEN user_company_input ELSE <<"Your Company">>
full_signature(user_name, user_company) ==
  <<"\n", "\n", "Best regards,", "\n">> \o user_name \o <<"\n">> \o user_company

\* ------------------------------------------------------------------ utils/search.py
SearchDefaultNumLeads == 10
EVENT_LINKS == {<<"ISA2025">>}

DescGood ==
  <<"Large", " ", "format", " ", "printing", " ", "services", " ", "for", " ",
    "trade", " ", "show", " ", "events">>

\* what a gallery page or a SerpAPI answer can hold for one company
RawPool ==
  { [name |-> <<"Acme">>, description |-> DescGood],
    [name |-> <<"Bolt">>, description |-> Empty],
    [name |-> Empty, description |-> Empty] }

RECURSIVE SeqsUpTo(_, _)
SeqsUpTo(S, n) ==
  IF n = 0 THEN {<<>>}
  ELSE LET shorter == SeqsUpTo(S, n - 1)
       IN  shorter \cup {Append(q, x) : q \in {r \in shorter : Len(r) = n - 1}, x \in S}

Distinct(q) == \A i, j \in 1..Len(q) : q[i] = q[j] => i = j

\* the answer of the outside world to one search: it raises, or it returns
\* some companies; their number is the service's choice
ExternalAnswers(pool) ==
  {[kind |-> "raise", results |-> <<>>]}
    \cup {[kind |-> "ok", results |-> r] :
            r \in {q \in SeqsUpTo(pool, MaxResults) : Distinct(q)}}

\* search.py 265-294: the gallery loop keeps named, not yet seen links until
\* max_exhibitors of them are collected
RECURSIVE gallery_links(_, _, _)
gallery_links(elements, max_exhibitors, infos) ==
  IF elements = <<>> \/ Len(infos) >= max_exhibitors THEN infos
  ELSE LET el == Head(elements)
       IN  IF el.name = Empty \/ \E i \in 1..Len(infos) : infos[i] = el
           THEN gallery_links(Tail(elements), max_exhibitors, infos)
           ELSE gallery_links(Tail(elements), max_exhibitors, Append(infos, el))

\* search.py 238-335
crawl_event_exhibitors(answer, max_exhibitors) ==
  IF answer.kind = "raise" THEN <<>>
  ELSE gallery_links(answer.results, max_exhibitors, <<>>)

\* search.py 339-366: the leads gathered before the final clean-up
gather_leads(keyword, num_leads, serp_key, answer) ==
  IF Upper(keyword) \in EVENT_LINKS
  THEN crawl_event_exhibitors(answer, num_leads)
  ELSE IF ~serp_key
       THEN <<[name |-> keyword, description |-> <<NoKeyDescription>>]>>
       ELSE IF answer.kind = "raise"
            THEN <<[name |-> keyword, description |-> <<"SerpAPI search failed">>]>>
            ELSE answer.results

\* search.py 368-402 (the return value; the write of db/search.csv is in the
\* actions): every lead gets its keys, an empty description gets the default
processed_lead(lead_item) ==
  [name |-> Strip(lead_item.name),
   description |-> IF Strip(lead_item.description) = Empty
                   THEN <<DefaultDescription>>
                   ELSE Strip(lead_item.description)]

search_leads(keyword, num_leads, serp_key, answer) ==
  LET leads_data == gather_leads(keyword, num_leads, serp_key, answer)
  IN  [i \in 1..Len(leads_data) |-> processed_lead(leads_data[i])]

\* ------------------------------------------------------------------ utils/enrichment.py
\* positional parameters of enrich_leads that have no default
EnrichLeadsRequiredArgs == 3

\* a Python call binds its arguments before the body runs; too few raise TypeError
enrich_leads_binds(nargs) == nargs >= EnrichLeadsRequiredArgs

\* answers of the qualification LLM: decision and rationale around the
\* separator, a refusal without separator whose rationale mentions "dyes",
\* an answer with no decision, and a raising call
R_YesSep == <<"Y", "e", "s", " ", SEP, " ", "f", "i", "t">>
R_NoSep == <<"N", "o", SEP, "o", "f", "f">>
R_NoDyes == <<"N", "o", ".", " ", "d", "y", "e", "s">>
R_Maybe == <<"m", "a", "y", "b", "e">>
QualAnswers == {R_YesSep, R_NoSep, R_NoDyes, R_Maybe, RAISE}
QualAnswersFew == {R_YesSep, RAISE}

Letters == {"Y", "N", "y", "e", "s", "n", "o", "m", "a", "b", "d", "f", "i", "t"}

RECURSIVE FirstWord(_)
FirstWord(s) ==
  IF s = <<>> \/ Head(s) \notin Letters THEN <<>>
  ELSE <<Head(s)>> \o FirstWord(Tail(s))

\* the decision the LLM gave: the leading word of its answer
LLMDecision(llm_response_text) ==
  LET w == Lower(FirstWord(LStrip(llm_response_text)))
  IN  IF w = <<"y", "e", "s">> THEN "Yes"
      ELSE IF w = <<"n", "o">> THEN "No"
      ELSE "none"

\* index of the first separator, 0 when there is none
SepIndex(s) ==
  IF \E i \in 1..Len(s) : s[i] = SEP
  THEN CHOOSE i \in 1..Len(s) : s[i] = SEP /\ \A j \in 1..(i - 1) : s[j] # SEP
  ELSE 0

\* enrichment.py 111-120
parse_qualified(llm_response_text) ==
  LET k == SepIndex(llm_response_text)
  IN  IF k > 0
      THEN LET qualification_decision_text ==
                 Lower(Strip(SubSeq(llm_response_text, 1, k - 1)))
           IN  IF Contains(qualification_decision_text, <<"y", "e", "s">>)
               THEN <<"Yes">> ELSE <<"No">>
      ELSE IF Contains(Lower(llm_response_text), <<"y", "e", "s">>)
           THEN <<"Yes">> ELSE <<"No">>

parse_rationale(llm_response_text) ==
  LET k == SepIndex(llm_response_text)
  IN  IF k > 0
      THEN Strip(SubSeq(llm_response_text, k + 1, Len(llm_response_text)))
      ELSE <<DefaultRationale>>

\* enrichment.py 86-139: one iteration of the qualification loop
qualify_lead(lead_data, llm_answer) ==
  IF llm_answer = RAISE
  THEN Put(Put(Put(Put(lead_data,
         "qualified", <<"Error">>),
         "qualification_rationale", <<"Enrichment error">>),
         "actionable", <<"No">>),
         "outreach_message", Empty)
  ELSE LET qualified == parse_qualified(llm_answer)
       IN  Put(Put(Put(lead_data,
             "qualified", qualified),
             "qualification_rationale", parse_rationale(llm_answer)),
             "actionable", IF qualified = <<"Yes">> THEN <<"Yes">> ELSE <<"No">>)

\* enrichment.py 78: the records returned when the LLM cannot be initialised
init_failed_lead(lead) ==
  Put(Put(Put(Put(lead,
    "qualified", <<"Error">>),
    "actionable", <<"Error">>),
    "qualification_rationale", <<"LLM Init Failed">>),
    "outreach_message", Empty)

\* an item of the input list that is not a dictionary, e.g. None
NotADict == [not_a_dict |-> TRUE]

\* enrichment.py 82: isinstance(lead_data, dict)
is_dict(item) == "not_a_dict" \notin DOMAIN item

\* enrichment.py 81-84: the items the loop does not skip, in their order
dict_items(leads) == SelectSeq(leads, is_dict)

\* ------------------------------------------------------------------ utils/guardrail.py
MinDescriptionLen == 25
MinMeaningfulWords == 5
MinRefinedLen == 50
TemplateSnippetLen == 100
FallbackSnippetLen == 70

NonDescriptive == {DefaultDescription}
Words == {"Large", "format", "printing", "services", "for", "trade", "show", "events"}

\* words of three letters or more in a token
TokWords(tok) ==
  IF tok \in Words THEN 1 ELSE IF tok = NoKeyDescription THEN 7 ELSE 0

RECURSIVE WordCount(_)
WordCount(s) == IF s = <<>> THEN 0 ELSE TokWords(Head(s)) + WordCount(Tail(s))

\* guardrail.py 18-36
is_description_meaningful(description) ==
  IF description = Empty \/ StrLen(description) < MinDescriptionLen THEN FALSE
  ELSE IF \E i \in 1..Len(description) : description[i] \in NonDescriptive THEN FALSE
  ELSE WordCount(description) > MinMeaningfulWords

\* answers of the guardrail LLM: a long body wrapped in an echo of the prompt
\* and a closing, a body that is too short, and a raising call
G_Long == <<"Refined Email Body:", " ", LongText, "\n", "Best regards,">>
G_Short == <<ShortText>>
GuardrailAnswers == {G_Long, G_Short, RAISE}
GuardrailAnswersFew == {G_Long}

\* guardrail.py 101-112
clean_refined(raw) ==
  LET a == Strip(RemoveTok(Strip(raw), "Refined Email Body:"))
  IN  IF a # <<>> /\ a[Len(a)] = "Best regards,"
      THEN Strip(SubSeq(a, 1, Len(a) - 1))
      ELSE a

snippet(company_description, n, generic) ==
  IF is_description_meaningful(company_description)
  THEN RStripDot(Strip(Truncate(company_description, n))) \o <<"...">>
  ELSE <<generic>>

\* guardrail.py 49-57: the template used when the guardrail LLM is missing
template_message(company_name, company_description, event_name) ==
  <<"It was a pleasure to learn about ">> \o company_name \o <<" during ">>
    \o event_name \o <<". We were impressed by ">>
    \o snippet(company_description, TemplateSnippetLen, "your work and presence")
    \o <<" and see potential for collaboration. Would you be open to a brief discussion?">>

\* guardrail.py 115-120 and 124-129
fallback_message(company_name, company_description, event_name) ==
  <<"Following ">> \o event_name \o <<", I wanted to reach out regarding ">>
    \o company_name \o <<". We were impressed by ">>
    \o snippet(company_description, FallbackSnippetLen, "your company's work")
    \o <<" and see potential for collaboration. Would you be open to a brief discussion?">>

\* guardrail.py 39-129
refine_outreach_message(company_name, company_description, event_name, llm, llm_answer) ==
  IF ~llm THEN template_message(company_name, company_description, event_name)
  ELSE IF llm_answer = RAISE
       THEN fallback_message(company_name, company_description, event_name)
       ELSE LET refined_text == clean_refined(llm_answer)
            IN  IF refined_text = Empty \/ StrLen(refined_text) < MinRefinedLen
                THEN fallback_message(company_name, company_description, event_name)
                ELSE refined_text

\* ------------------------------------------------------------------ utils/outreach.py
\* the initial concept is kept instead of the refined body
generate_and_refine_unrefined(lead_dict, user_signature, event_name, llm, llm_answer) ==
  <<"Follow-up after seeing ">> \o Get(lead_dict, "name", <<"your company">>)
    \o user_signature

\* outreach.py 8-28
generate_and_refine(lead_dict, user_signature, event_name, llm, llm_answer) ==
  refine_outreach_message(Get(lead_dict, "name", <<"your company">>),
                          Get(lead_dict, "description", Empty),
                          event_name, llm, llm_answer)
    \o user_signature

\* outreach.py 42-49: one iteration of generate_outreach's loop
outreach_lead(lead_item, user_signature, event_name, llm, llm_answer) ==
  Put(lead_item, "outreach_message",
      generate_and_refine(lead_item, user_signature, event_name, llm, llm_answer))

\* ------------------------------------------------------------------ csv files and utils/finalize.py
\* os.path.exists is false
NoFile == <<[missing |-> TRUE]>>
MinActionableLen == 30

\* pandas.read_csv: an empty cell comes back as NaN
read_cell(v) == IF v \in {Empty, None} THEN NaN ELSE v
read_csv(file) ==
  [i \in 1..Len(file) |-> [k \in DOMAIN file[i] |-> read_cell(file[i][k])]]

isna(v) == v \in {None, NaN}

\* finalize.py 4-13
determine_status(row) ==
  IF isna(Get(row, "Name", None)) \/ isna(Get(row, "Title", None))
  THEN <<"incomplete">>
  ELSE IF ~isna(Get(row, "Outreach Message", Empty))
          /\ StrLen(Get(row, "Outreach Message", Empty)) > MinActionableLen
  THEN <<"actionable">>
  ELSE IF Get(row, "Qualified", None) = <<"True">>
  THEN <<"qualified">>
  ELSE <<"skipped">>

\* finalize.py 23-28: the rows written to db/master_outreach.csv
finalized_rows(enriched_file) ==
  LET df == read_csv(enriched_file)
  IN  [i \in 1..Len(df) |-> Put(df[i], "Status", determine_status(df[i]))]

\* app.py 129: the dashboard's preferred status selection
DefaultStatusFilter == {<<"actionable">>, <<"qualified">>}

\* ------------------------------------------------------------------ state
VARIABLES
  prog,                 \* entry point in progress: "none", "run", "pipeline", "cli"
  pc,                   \* its position
  outcome,              \* how it ended: "running", "returned", or the exception raised
  runs,                 \* invocations started so far
  event_name,           \* run.py: the answers at the prompts and what is derived
  num_leads_str,
  num_leads,
  user_full_signature,
  args,                 \* main_backend.pipeline: its arguments
  found_leads,          \* the leads search returned (run.py found_leads, pipeline all_leads)
  guardrail_llm,        \* guardrail.py's module-level llm is not None
  enriched_leads_list,  \* enrich_leads: its locals and its return value
  leads_with_outreach,
  enriched_result,
  db,                   \* the files under db/
  log,                  \* history: the stages of this invocation, in order
  guardrail_returns,    \* history: what refine_outreach_message returned, per lead
  llm_answers,          \* history: the qualification LLM's answer for each lead so far
  did,                  \* history: a search, an LLM call, a write happened in this invocation
  db_at_start,          \* history: db/ when this invocation started
  discovery             \* discover_events: its arguments, what the search gave, its return value

vars ==
  <<prog, pc, outcome, runs, event_name, num_leads_str, num_leads,
    user_full_signature, args, found_leads, guardrail_llm, enriched_leads_list,
    leads_with_outreach, enriched_result, db, log, guardrail_returns, llm_answers,
    did, db_at_start, discovery>>

NoArgs == [file |-> None, keyword |-> None, user_name |-> None, org_name |-> None]
NothingDone == [search |-> FALSE, llm |-> FALSE, write |-> FALSE]
EmptyDb ==
  [search |-> NoFile, enriched |-> NoFile, master |-> NoFile,
   input |-> NoFile, final |-> NoFile]

\* discover_events has not been called
NoDiscovery ==
  [keyword |-> Empty, max_events |-> 0, serp_key |-> FALSE,
   answer |-> [kind |-> "raise", results |-> <<>>], urls |-> <<>>]

Init ==
  /\ prog = "none"
  /\ pc = "idle"
  /\ outcome = "running"
  /\ runs = 0
  /\ event_name = Empty
  /\ num_leads_str = Empty
  /\ num_leads = 0
  /\ user_full_signature = Empty
  /\ args = NoArgs
  /\ found_leads = <<>>
  /\ guardrail_llm = FALSE
  /\ enriched_leads_list = <<>>
  /\ leads_with_outreach = <<>>
  /\ enriched_result = <<>>
  /\ db = EmptyDb
  /\ log = <<>>
  /\ guardrail_returns = {}
  /\ llm_answers = <<>>
  /\ did = NothingDone
  /\ db_at_start = EmptyDb
  /\ discovery = NoDiscovery

\* database.py 4-11
save_stage(files, data, stage) == [files EXCEPT ![stage] = data]

\* search.py 396-402: search_leads saves what it found, when it found something
search_saved(files, processed_leads) ==
  IF processed_leads # <<>> THEN save_stage(files, processed_leads, "search") ELSE files

\* ------------------------------------------------------------------ run.py
EventInputs == {<<"isa2025">>, <<"signage">>}
NumLeadsInputs == {Empty, <<"0">>, <<"1">>}
\* name and company typed at the signature prompts
SignatureInputs == {<<Empty, Empty>>, <<<<"Ann">>, <<"Org">>>>}

\* run.py 23-54: the prompts
RunPrompt(events, numbers, signatures) ==
  /\ prog = "none"
  /\ \E ev \in events, ns \in numbers, sg \in signatures :
       /\ event_name' = ev
       /\ num_leads_str' = ns
       /\ num_leads' = read_num_leads(ns)
       /\ user_full_signature' = 
            full_signature(signature_name(sg[1]), signature_company(sg[2]))
  /\ prog' = "run"
  /\ pc' = "search"
  /\ runs' = runs + 1
  /\ db_at_start' = db
  /\ UNCHANGED <<discovery, outcome, args, found_leads, guardrail_llm, enriched_leads_list,
                 leads_with_outreach, enriched_result, db, log, guardrail_returns,
                 llm_answers, did>>

\* run.py 56-64
RunSearch(pool) ==
  /\ prog = "run" /\ pc = "search"
  /\ \E serp_key \in BOOLEAN, answer \in ExternalAnswers(pool) :
       LET leads == search_leads(event_name, num_leads, serp_key, answer)
       IN  /\ found_leads' = leads
           /\ db' = search_saved(db, leads)
           /\ did' = [did EXCEPT !.search = TRUE, !.write = @ \/ leads # <<>>]
           /\ IF leads = <<>>
              THEN pc' = "done" /\ outcome' = "returned"
              ELSE pc' = "enrich" /\ outcome' = outcome
  /\ log' = Append(log, "search")
  /\ UNCHANGED <<discovery, prog, runs, event_name, num_leads_str, num_leads, user_full_signature,
                 args, guardrail_llm, enriched_leads_list, leads_with_outreach,
                 enriched_result, guardrail_returns, llm_answers, db_at_start>>

\* where OPENAI_API_KEY is set: the process environment, only the .env file
\* (loaded by enrichment.py after guardrail.py was imported), or nowhere
KeySources == {"environ", "dotenv", "missing"}

\* the callers of enrich_leads that pass it what it requires: run.py's main,
\* and a direct call of the function
EnrichCallers == {"run", "enrich"}

\* run.py 67-75 and enrichment.py 65-80: the call and the LLM's initialisation
EnrichCall ==
  /\ prog \in EnrichCallers /\ pc = "enrich"
  /\ enrich_leads_binds(3)
  /\ log' = Append(log, "enrich")
  /\ \E src \in KeySources :
       IF found_leads = <<>>
       THEN /\ enriched_result' = <<>>
            /\ pc' = "enriched"
            /\ UNCHANGED <<guardrail_llm, outcome>>
       ELSE IF src = "missing" /\ dict_items(found_leads) # found_leads
       THEN \* dict(lead, ...) raises on an item that is not a dictionary
            /\ pc' = "done"
            /\ outcome' = "TypeError"
            /\ UNCHANGED <<guardrail_llm, enriched_result>>
       ELSE IF src = "missing"
       THEN /\ enriched_result' =
                 [i \in 1..Len(found_leads) |-> init_failed_lead(found_leads[i])]
            /\ pc' = "enriched"
            /\ UNCHANGED <<guardrail_llm, outcome>>
       ELSE /\ guardrail_llm' = (src = "environ")
            /\ pc' = IF dict_items(found_leads) = <<>> THEN "save" ELSE "qualify"
            /\ UNCHANGED <<enriched_result, outcome>>
  /\ enriched_leads_list' = <<>>
  /\ leads_with_outreach' = <<>>
  /\ UNCHANGED <<discovery, prog, runs, event_name, num_leads_str, num_leads,
                 user_full_signature, args, found_leads, db, guardrail_returns, llm_answers,
                 did, db_at_start>>

\* outreach generation started inside the qualification loop
after_qualify_early(n_done, n_leads) == "outreach"

\* enrichment.py 81, 141-145: the loop goes on to the next lead, and outreach
\* generation starts when every lead has been through it
after_qualify(n_done, n_leads) == IF n_done < n_leads THEN "qualify" ELSE "outreach"

\* enrichment.py 81-139: one lead through the qualification loop
QualifyLead(answers) ==
  /\ prog \in EnrichCallers /\ pc = "qualify"
  /\ Len(enriched_leads_list) < Len(dict_items(found_leads))
  /\ \E a \in answers :
       /\ enriched_leads_list' =
            Append(enriched_leads_list,
                   qualify_lead(dict_items(found_leads)[Len(enriched_leads_list) + 1], a))
       /\ llm_answers' = Append(llm_answers, a)
  /\ pc' = after_qualify(Len(enriched_leads_list) + 1, Len(dict_items(found_leads)))
  /\ did' = [did EXCEPT !.llm = TRUE]
  /\ log' = Append(log, "qualify")
  /\ UNCHANGED <<discovery, prog, outcome, runs, event_name, num_leads_str, num_leads,
                 user_full_signature, args, found_leads, guardrail_llm,
                 leads_with_outreach, enriched_result, db, guardrail_returns, db_at_start>>

\* outreach.py 37-50: one lead through generate_outreach's loop
OutreachLead(answers) ==
  /\ prog \in EnrichCallers /\ pc = "outreach"
  /\ Len(leads_with_outreach) < Len(enriched_leads_list)
  /\ \E g \in answers :
       LET lead_item == enriched_leads_list[Len(leads_with_outreach) + 1]
           body == refine_outreach_message(
                     Get(lead_item, "name", <<"your company">>),
                     Get(lead_item, "description", Empty),
                     <<DefaultEvent>>, guardrail_llm, g)
       IN  /\ leads_with_outreach' =
                Append(leads_with_outreach,
                       outreach_lead(lead_item, user_full_signature, <<DefaultEvent>>,
                                     guardrail_llm, g))
           /\ guardrail_returns' = guardrail_returns \cup
                {[name |-> lead_item["name"], description |-> lead_item["description"],
                  body |-> body]}
  /\ pc' = IF Len(leads_with_outreach) + 1 < Len(enriched_leads_list)
           THEN "outreach" ELSE "save"
  /\ did' = [did EXCEPT !.llm = @ \/ guardrail_llm]
  /\ log' = Append(log, "outreach")
  /\ UNCHANGED <<discovery, prog, outcome, runs, event_name, num_leads_str, num_leads,
                 user_full_signature, args, found_leads, guardrail_llm,
                 enriched_leads_list, enriched_result, db, db_at_start,
                 llm_answers>>

\* the qualified leads saved and returned as they were before
\* generate_outreach
enrich_saved_unmessaged(enriched, with_outreach) == enriched

\* enrichment.py 154-161: what is saved and returned
enrich_saved(enriched, with_outreach) ==
  IF with_outreach = <<>> /\ enriched # <<>> THEN enriched ELSE with_outreach

\* enrichment.py 154-161
SaveEnriched ==
  /\ prog \in EnrichCallers /\ pc = "save"
  /\ db' = save_stage(db, enrich_saved(enriched_leads_list, leads_with_outreach), "enriched")
  /\ enriched_result' = enrich_saved(enriched_leads_list, leads_with_outreach)
  /\ pc' = "enriched"
  /\ did' = [did EXCEPT !.write = TRUE]
  /\ log' = Append(log, "write")
  /\ UNCHANGED <<discovery, prog, outcome, runs, event_name, num_leads_str, num_leads,
                 user_full_signature, args, found_leads, guardrail_llm,
                 enriched_leads_list, leads_with_outreach, guardrail_returns,
                 llm_answers, db_at_start>>

\* the existence test left out: an empty master table is written
finalize_unchecked(files) ==
  [files EXCEPT !.master = IF files.enriched = NoFile THEN <<>>
                           ELSE finalized_rows(files.enriched)]

\* finalize.py 15-29
finalize(files) ==
  IF files.enriched = NoFile THEN files
  ELSE [files EXCEPT !.master = finalized_rows(files.enriched)]

\* run.py 76-120: finalize runs when enrich_leads returned something
RunFinalize ==
  /\ prog = "run" /\ pc = "enriched"
  /\ IF enriched_result # <<>>
     THEN /\ db' = finalize(db)
          /\ did' = [did EXCEPT !.write = @ \/ db.enriched # NoFile]
          /\ log' = Append(log, "finalize")
     ELSE UNCHANGED <<db, did, log>>
  /\ pc' = "done"
  /\ outcome' = "returned"
  /\ UNCHANGED <<discovery, prog, runs, event_name, num_leads_str, num_leads,
                 user_full_signature, args, found_leads, guardrail_llm,
                 enriched_leads_list, leads_with_outreach, enriched_result,
                 guardrail_returns, llm_answers, db_at_start>>

\* ------------------------------------------------------------------ enrich_leads called directly
\* the items a caller may put in the list: leads, and something that is not
\* a dictionary
LeadItems ==
  {[name |-> <<"Acme">>, description |-> DescGood],
   [name |-> <<"Bolt">>, description |-> Empty],
   NotADict}
EnrichInputs == SeqsUpTo(LeadItems, MaxItems)

\* enrichment.py 65: enrich_leads(leads, user_signature, user_name_for_signature)
EnrichDirect(lists, signatures) ==
  /\ prog = "none"
  /\ \E leads \in lists, sg \in signatures :
       /\ found_leads' = leads
       /\ user_full_signature' =
            full_signature(signature_name(sg[1]), signature_company(sg[2]))
  /\ prog' = "enrich"
  /\ pc' = "enrich"
  /\ runs' = runs + 1
  /\ db_at_start' = db
  /\ UNCHANGED <<discovery, outcome, event_name, num_leads_str, num_leads, args, guardrail_llm,
                 enriched_leads_list, leads_with_outreach, enriched_result, db, log,
                 guardrail_returns, llm_answers, did>>

\* enrichment.py 68, 78, 158, 161: enrich_leads returns to its caller
EnrichReturn ==
  /\ prog = "enrich" /\ pc = "enriched"
  /\ pc' = "done"
  /\ outcome' = "returned"
  /\ UNCHANGED <<discovery, prog, runs, event_name, num_leads_str, num_leads,
                 user_full_signature, args, found_leads, guardrail_llm,
                 enriched_leads_list, leads_with_outreach, enriched_result, db, log,
                 guardrail_returns, llm_answers, did, db_at_start>>

\* ------------------------------------------------------------------ utils/event_research.py
\* organic results of the event search: with a link, with an empty link,
\* without the key
EventResults ==
  {[link |-> <<"https://a.mapyourshow.com">>],
   [link |-> <<"https://b.mapyourshow.com">>],
   [link |-> Empty],
   [title |-> <<"untitled">>]}

\* GoogleSearch(params).get_dict().get("organic_results", []): it raises, or
\* it returns results, the same link possibly more than once
EventAnswers(pool) ==
  {[kind |-> "raise", results |-> <<>>]}
    \cup {[kind |-> "ok", results |-> r] : r \in SeqsUpTo(pool, MaxEventResults)}

InSeq(x, q) == \E i \in 1..Len(q) : q[i] = x

\* event_research.py 26-31: the loop over the results, from one of its
\* iterations on; the length is tested after the append
RECURSIVE discover_loop(_, _, _)
discover_loop(results, urls, max_events) ==
  IF results = <<>> THEN urls
  ELSE LET link == Get(Head(results), "link", None)
           appended == IF ~Falsy(link) /\ ~InSeq(link, urls)
                       THEN Append(urls, link) ELSE urls
       IN  IF Len(appended) >= max_events THEN appended
           ELSE discover_loop(Tail(results), appended, max_events)

\* event_research.py 11-33
discover_events(keyword, max_events, serp_key, answer) ==
  IF ~serp_key THEN <<>>
  ELSE IF answer.kind = "raise" THEN <<>>
  ELSE discover_loop(answer.results, <<>>, max_events)

\* a call of discover_events(keyword, max_events)
DiscoverEvents(pool) ==
  /\ prog = "none"
  /\ \E keyword \in EventInputs, max_events \in 0..MaxEvents,
        serp_key \in BOOLEAN, answer \in EventAnswers(pool) :
       discovery' = [keyword |-> keyword, max_events |-> max_events,
                     serp_key |-> serp_key, answer |-> answer,
                     urls |-> discover_events(keyword, max_events, serp_key, answer)]
  /\ prog' = "discover"
  /\ pc' = "done"
  /\ outcome' = "returned"
  /\ runs' = runs + 1
  /\ db_at_start' = db
  /\ UNCHANGED <<event_name, num_leads_str, num_leads, user_full_signature, args,
                 found_leads, guardrail_llm, enriched_leads_list, leads_with_outreach,
                 enriched_result, db, log, guardrail_returns, llm_answers, did>>

\* ------------------------------------------------------------------ main_backend.py
FileArgs == {None, <<"leads.pdf">>}
KeywordArgs == {None, <<"isa2025">>, <<"signage">>}
UserNameArgs == {None, <<"Ann">>}
OrgNameArgs == {None, Empty, <<"Org">>}

\* `and` written for `or`
pipeline_identity_either(user_name, org_name) == ~(Falsy(user_name) /\ Falsy(org_name))

\* main_backend.py 56
pipeline_identity_given(user_name, org_name) == ~(Falsy(user_name) \/ Falsy(org_name))

\* main_backend.py 44-57: the call and its first check
PipelineCall ==
  /\ prog = "none"
  /\ \E f \in FileArgs, k \in KeywordArgs, u \in UserNameArgs, o \in OrgNameArgs :
       /\ args' = [file |-> f, keyword |-> k, user_name |-> u, org_name |-> o]
       /\ IF pipeline_identity_given(u, o)
          THEN pc' = "gather" /\ outcome' = outcome
          ELSE pc' = "done" /\ outcome' = "ValueError"
  /\ prog' = "pipeline"
  /\ runs' = runs + 1
  /\ db_at_start' = db
  /\ UNCHANGED <<discovery, event_name, num_leads_str, num_leads, user_full_signature,
                 found_leads, guardrail_llm, enriched_leads_list, leads_with_outreach,
                 enriched_result, db, log, guardrail_returns, llm_answers, did>>

\* input_processing.py 11-48: the PDF cannot be read, or the LLM names companies
PdfNames == {RAISE, <<>>, <<<<"signage">>>>}

\* os.path.splitext(os.path.basename(file_path))[0]
pdf_event_name(file_path) == IF file_path = <<"leads.pdf">> THEN <<"leads">> ELSE file_path

tagged(leads, source) == [i \in 1..Len(leads) |-> Put(leads[i], "source", source)]

\* main_backend.py 59-75: the leads are gathered from the file or the keyword
PipelineGather(pool) ==
  /\ prog = "pipeline" /\ pc = "gather"
  /\ IF ~Falsy(args.file)
     THEN \E names \in PdfNames :
            IF names = RAISE
            THEN /\ pc' = "done" /\ outcome' = "RuntimeError"
                 /\ UNCHANGED <<found_leads, db, did, log>>
            ELSE \E serp_key \in BOOLEAN, answer \in ExternalAnswers(pool) :
                   LET leads == IF names = <<>> THEN <<>>
                                ELSE search_leads(names[1], SearchDefaultNumLeads,
                                                  serp_key, answer)
                       named == [i \in 1..Len(names) |-> [name |-> names[i]]]
                   IN  /\ found_leads' = tagged(leads, pdf_event_name(args.file))
                       /\ db' = search_saved(save_stage(db, named, "input"), leads)
                       /\ did' = [search |-> names # <<>>, llm |-> TRUE, write |-> TRUE]
                       /\ log' = IF names = <<>> THEN log ELSE Append(log, "search")
                       /\ pc' = "enrich" /\ outcome' = outcome
     ELSE IF ~Falsy(args.keyword)
     THEN \E serp_key \in BOOLEAN, answer \in ExternalAnswers(pool) :
            LET leads == search_leads(args.keyword, SearchDefaultNumLeads,
                                      serp_key, answer)
            IN  /\ found_leads' = tagged(leads, args.keyword)
                /\ db' = search_saved(db, leads)
                /\ did' = [did EXCEPT !.search = TRUE, !.write = @ \/ leads # <<>>]
                /\ log' = Append(log, "search")
                /\ pc' = "enrich" /\ outcome' = outcome
     ELSE /\ pc' = "done" /\ outcome' = "ValueError"
          /\ UNCHANGED <<found_leads, db, did, log>>
  /\ UNCHANGED <<discovery, prog, runs, event_name, num_leads_str, num_leads, user_full_signature,
                 args, guardrail_llm, enriched_leads_list, leads_with_outreach,
                 enriched_result, guardrail_returns, llm_answers, db_at_start>>

\* main_backend.py 78: enrich_leads(all_leads) is called with one argument.
\* The statements after it (79-146) run only if that call returns.
PipelineEnrich ==
  /\ prog = "pipeline" /\ pc = "enrich"
  /\ IF enrich_leads_binds(1)
     THEN pc' = "outreach" /\ outcome' = outcome
     ELSE pc' = "done" /\ outcome' = "TypeError"
  /\ UNCHANGED <<discovery, prog, runs, event_name, num_leads_str, num_leads, user_full_signature,
                 args, found_leads, guardrail_llm, enriched_leads_list,
                 leads_with_outreach, enriched_result, db, log, guardrail_returns, llm_answers,
                 did, db_at_start>>

\* ------------------------------------------------------------------ cli.py
\* cli.py 47-53: --mode enrich_only
CliEnrichOnly ==
  /\ prog = "none"
  /\ prog' = "cli"
  /\ runs' = runs + 1
  /\ db_at_start' = db
  /\ found_leads' = IF db.search # NoFile THEN read_csv(db.search) ELSE <<>>
  /\ pc' = "done"
  /\ outcome' = IF enrich_leads_binds(1) THEN "returned" ELSE "TypeError"
  /\ UNCHANGED <<discovery, event_name, num_leads_str, num_leads, user_full_signature, args,
                 guardrail_llm, enriched_leads_list, leads_with_outreach,
                 enriched_result, db, log, guardrail_returns, llm_answers, did>>

\* ------------------------------------------------------------------ specifications
\* the process ends; the files under db/ stay for the next invocation
Restart ==
  /\ pc = "done"
  /\ runs < MaxRuns
  /\ prog' = "none"
  /\ pc' = "idle"
  /\ outcome' = "running"
  /\ event_name' = Empty
  /\ num_leads_str' = Empty
  /\ num_leads' = 0
  /\ user_full_signature' = Empty
  /\ args' = NoArgs
  /\ found_leads' = <<>>
  /\ guardrail_llm' = FALSE
  /\ enriched_leads_list' = <<>>
  /\ leads_with_outreach' = <<>>
  /\ enriched_result' = <<>>
  /\ log' = <<>>
  /\ llm_answers' = <<>>
  /\ did' = NothingDone
  /\ discovery' = NoDiscovery
  /\ UNCHANGED <<runs, db, guardrail_returns, db_at_start>>

\* one invocation of one entry point, starting without files under db/
Next ==
  \/ RunPrompt(EventInputs, NumLeadsInputs, SignatureInputs)
  \/ RunSearch(RawPool)
  \/ EnrichCall
  \/ QualifyLead(QualAnswers)
  \/ OutreachLead(GuardrailAnswers)
  \/ SaveEnriched
  \/ RunFinalize
  \/ PipelineCall
  \/ PipelineGather(RawPool)
  \/ PipelineEnrich
  \/ CliEnrichOnly

Spec == Init /\ [][Next]_vars

\* what the outside world answers in SpecRuns
RawPoolFew == {[name |-> <<"Acme">>, description |-> DescGood],
               [name |-> <<"Bolt">>, description |-> Empty]}

\* successive invocations over the same db/ directory
NextRuns ==
  \/ RunPrompt(EventInputs, {<<"1">>}, {<<<<"Ann">>, <<"Org">>>>})
  \/ RunSearch(RawPoolFew)
  \/ EnrichCall
  \/ QualifyLead(QualAnswersFew)
  \/ OutreachLead(GuardrailAnswersFew)
  \/ SaveEnriched
  \/ RunFinalize
  \/ PipelineCall
  \/ PipelineGather(RawPoolFew)
  \/ PipelineEnrich
  \/ CliEnrichOnly
  \/ Restart

SpecRuns == Init /\ [][NextRuns]_vars

\* one direct call of enrich_leads on a list of any items
NextEnrich ==
  \/ EnrichDirect(EnrichInputs, SignatureInputs)
  \/ EnrichCall
  \/ QualifyLead(QualAnswersFew)
  \/ OutreachLead(GuardrailAnswers)
  \/ SaveEnriched
  \/ EnrichReturn

SpecEnrich == Init /\ [][NextEnrich]_vars

\* one call of discover_events
NextDiscover == DiscoverEvents(EventResults)

SpecDiscover == Init /\ [][NextDiscover]_vars

\* ------------------------------------------------------------------ properties
Count(q, x) == Cardinality({i \in 1..Len(q) : q[i] = x})

Rank(stage) ==
  CASE stage = "search" -> 1
    [] stage = "enrich" -> 2
    [] stage = "qualify" -> 3
    [] stage = "outreach" -> 4
    [] stage = "write" -> 5
    [] stage = "finalize" -> 6

\* C1: in one execution of run.py the stages happen in the order search,
\* enrich_leads, finalize, each at most once; inside enrich_leads every lead is
\* qualified before the first outreach message is generated, and a message is
\* generated for every lead before db/enriched.csv is written; enrich_leads is
\* called only after a search that returned leads, and finalize only after
\* enrich_leads returned a non-empty list.
C1_StagesInOrder ==
  prog = "run" =>
    /\ \A i, j \in 1..Len(log) : i < j => Rank(log[i]) <= Rank(log[j])
    /\ \A st \in {"search", "enrich", "write", "finalize"} : Count(log, st) <= 1
    /\ Count(log, "enrich") = 1 => Count(log, "search") = 1 /\ found_leads # <<>>
    /\ Count(log, "outreach") > 0 => Count(log, "qualify") = Len(found_leads)
    /\ Count(log, "write") = 1 => Count(log, "outreach") = Len(found_leads)
    /\ Count(log, "finalize") = 1 =>
         /\ Count(log, "enrich") = 1
         /\ enriched_result # <<>>
         /\ Count(log, "qualify") > 0 => Count(log, "write") = 1

\* a run that went through every stage with two leads
C1_Witness ==
  /\ prog = "run" /\ pc = "done"
  /\ Len(found_leads) = 2
  /\ log = <<"search", "enrich", "qualify", "qualify", "outreach", "outreach",
             "write", "finalize">>

\* C2: every outreach_message in db/enriched.csv is a body that
\* refine_outreach_message returned for that lead's name and description,
\* followed by the user's signature.
C2_OutreachThroughGuardrail ==
  db.enriched # NoFile =>
    \A i \in 1..Len(db.enriched) :
      LET row == db.enriched[i]
      IN  /\ "outreach_message" \in DOMAIN row
          /\ \E g \in guardrail_returns :
               /\ g.name = row["name"]
               /\ g.description = row["description"]
               /\ row["outreach_message"] = g.body \o user_full_signature

\* a saved message whose body is the LLM's refined text, next to one that is
\* the guardrail's fallback
C2_Witness ==
  /\ db.enriched # NoFile
  /\ \E i, j \in 1..Len(db.enriched) :
       /\ db.enriched[i]["outreach_message"] = <<LongText>> \o user_full_signature
       /\ db.enriched[j]["outreach_message"] =
            fallback_message(db.enriched[j]["name"], db.enriched[j]["description"],
                             <<DefaultEvent>>) \o user_full_signature

\* C3: a lead is recorded qualified = 'Yes' only when the LLM's decision for it
\* is 'Yes', with or without the separator in the answer, and an answer with no
\* recognisable decision is recorded as 'No'.
C3_QualifiedOnlyOnYes ==
  \A i \in 1..Len(enriched_leads_list) :
    llm_answers[i] # RAISE =>
      /\ enriched_leads_list[i]["qualified"] = <<"Yes">>
           => LLMDecision(llm_answers[i]) = "Yes"
      /\ LLMDecision(llm_answers[i]) = "none"
           => enriched_leads_list[i]["qualified"] = <<"No">>

\* the leads that have a row in db/master_outreach.csv
MasterLeads ==
  IF db.master = NoFile THEN {}
  ELSE {<<db.master[i]["name"], db.master[i]["description"]>> : i \in 1..Len(db.master)}

\* C4: a lead that has a row in db/master_outreach.csv keeps a row there
\* through every later pipeline run.
C4_MasterAccumulates == [][MasterLeads \subseteq MasterLeads']_vars

\* C5: after finalize, every lead that enrich_leads wrote to db/enriched.csv
\* with a company name and an outreach message of more than 30 characters has
\* Status 'actionable' in db/master_outreach.csv, one of the statuses the
\* dashboard selects by default.
C5_ActionableStatus ==
  (prog = "run" /\ pc = "done" /\ Count(log, "write") = 1 /\ Count(log, "finalize") = 1) =>
    /\ db.master # NoFile
    /\ Len(db.master) = Len(db.enriched)
    /\ \A i \in 1..Len(db.enriched) :
         (/\ db.enriched[i]["name"] # Empty
          /\ StrLen(db.enriched[i]["outreach_message"]) > MinActionableLen)
           => /\ db.master[i]["Status"] = <<"actionable">>
              /\ db.master[i]["Status"] \in DefaultStatusFilter

\* C6: search_leads(keyword, num_leads) with num_leads >= 1 returns at most
\* num_leads leads, on every path.
C6_AtMostNumLeads ==
  (prog = "run" /\ Count(log, "search") = 1 /\ num_leads >= 1) =>
    Len(found_leads) <= num_leads

PipelineInputGiven == ~Falsy(args.file) \/ ~Falsy(args.keyword)

\* C7: called with a user_name, an org_name and a keyword or a (readable)
\* file, pipeline returns, and db/final_outreach.csv then holds exactly one row per enriched
\* lead whose actionable field is 'Yes'.
C7_PipelineCompletes ==
  (/\ prog = "pipeline" /\ pc = "done"
   /\ pipeline_identity_given(args.user_name, args.org_name)
   /\ PipelineInputGiven
   /\ outcome # "RuntimeError") =>
    /\ outcome = "returned"
    /\ db.final # NoFile
    /\ Len(db.final) =
         Cardinality({i \in 1..Len(enriched_result) :
                        Get(enriched_result[i], "actionable", None) = <<"Yes">>})

\* C8: pipeline raises ValueError when user_name or org_name is missing and
\* when neither file nor keyword is given, and by then no search, no LLM call
\* and no write under db/ has happened.
C8_ValueErrorBeforeAnything ==
  (/\ prog = "pipeline" /\ pc = "done"
   /\ \/ Falsy(args.user_name)
      \/ Falsy(args.org_name)
      \/ ~PipelineInputGiven) =>
    /\ outcome = "ValueError"
    /\ did = NothingDone
    /\ db = db_at_start

\* pipeline rejected a call that names the user and the organisation but
\* gives neither file nor keyword
C8_Witness ==
  /\ prog = "pipeline" /\ pc = "done" /\ outcome = "ValueError"
  /\ ~Falsy(args.user_name) /\ ~Falsy(args.org_name)
  /\ ~PipelineInputGiven
  /\ did = NothingDone

\* C9: cli --mode enrich_only enriches the leads of db/search.csv (none when
\* the file is missing) and reports their number without raising.
C9_EnrichOnlyReports ==
  (prog = "cli" /\ pc = "done") => outcome = "returned"

\* C10: with nothing entered at the number-of-leads prompt, search_leads is
\* called with num_leads = 10, the default the prompt announces; whatever is
\* entered, the value passed is a positive integer.
C10_DefaultAsAnnounced ==
  (prog = "run" /\ Count(log, "search") = 1) =>
    /\ num_leads_str = Empty => num_leads = PromptDefault
    /\ num_leads > 0

\* C12: when db/enriched.csv does not exist, finalize returns and
\* db/master_outreach.csv is as it was when the invocation started: it is
\* neither created nor modified.
C12_FinalizeWithoutEnriched ==
  (prog = "run" /\ Count(log, "finalize") = 1 /\ db.enriched = NoFile) =>
    db.master = db_at_start.master

\* finalize ran with no db/enriched.csv: enrich_leads returned its error
\* records without saving anything
C12_Witness ==
  /\ prog = "run" /\ pc = "done"
  /\ Count(log, "finalize") = 1
  /\ db.enriched = NoFile
  /\ db.master = NoFile
  /\ enriched_result # <<>>

\* C13: whenever run.py's main invokes finalize and there is a
\* db/enriched.csv for it to read, that file was written by the enrich_leads
\* call of the same run, and the rows finalize writes to
\* db/master_outreach.csv are the leads enrich_leads just returned.
C13_FinalizeReadsThisRun ==
  (prog = "run" /\ Count(log, "finalize") = 1 /\ db.enriched # NoFile) =>
    /\ Count(log, "write") = 1
    /\ db.master # NoFile
    /\ Len(db.master) = Len(enriched_result)
    /\ \A i \in 1..Len(enriched_result) :
         /\ db.master[i]["name"] = read_cell(enriched_result[i]["name"])
         /\ db.master[i]["description"] = read_cell(enriched_result[i]["description"])

EnrichKeys == {"qualified", "qualification_rationale", "actionable", "outreach_message"}

FirstOccurrence(results, link) ==
  CHOOSE i \in 1..Len(results) :
    /\ Get(results[i], "link", None) = link
    /\ \A j \in 1..(i - 1) : Get(results[j], "link", None) # link

\* C11: for every keyword and every max_events >= 0, discover_events returns
\* at most max_events URLs, pairwise distinct and in the order of their first
\* occurrence in the search results; it returns an empty list when
\* SERPAPI_API_KEY is unset or the search raises.
C11_DiscoverAtMost ==
  (prog = "discover" /\ discovery.max_events >= 0) =>
    LET urls == discovery.urls
        results == discovery.answer.results
    IN  /\ Len(urls) <= discovery.max_events
        /\ Distinct(urls)
        /\ \A i \in 1..Len(urls) :
             \E k \in 1..Len(results) : Get(results[k], "link", None) = urls[i]
        /\ \A i, j \in 1..Len(urls) :
             i < j => FirstOccurrence(results, urls[i]) < FirstOccurrence(results, urls[j])
        /\ (~discovery.serp_key \/ discovery.answer.kind = "raise") => urls = <<>>

====
